---- MODULE Spec2Model ----
(***************************************************************************)
(* Resilience layer of src/playAiErrorHandling.js: the circuit breaker     *)
(* (createCircuitBreaker), the backoff retry loop (retryWithBackoff) and   *)
(* the error classifier (classifyError) it uses.                           *)
(*                                                                         *)
(* Every asynchronous function is cut at its await points: the part that   *)
(* runs synchronously is one action, each continuation another.  Timers    *)
(* are the handles setTimeout returns; a handle is pending from setTimeout *)
(* until its callback runs or clearTimeout is called with it.              *)
(***************************************************************************)
EXTENDS Integers, Sequences, FiniteSets, TLC

\* ------------------------------------------------------------------ bounds
\* Number of execute() calls that may overlap on one breaker.
NumCalls == 2
\* Largest failureThreshold option tried.
MaxThreshold == 3
\* The resetTimeout option tried (abstract time units).
ResetTimeoutTried == 2

\* Largest maxRetries option tried.
MaxRetries == 3
\* Longest fallback chain tried.
MaxChain == 4
\* Number of classifyError calls followed.
MaxClassified == 2
\* Number of WebSockets a session may create.
MaxSockets == 3
\* Number of WebSockets a session may create while the service is unreachable.
MaxOutageSockets == 7

\* Largest number of fallbacks given to a resilient call.
MaxFallbacks == 2
\* Largest maxRetries given in the retryOptions of a resilient call.
MaxCallRetries == 2

\* Largest maxReconnects option given to a monitor.
MaxReconnectsTried == 2
\* Number of times start() may begin a monitoring period.
MaxStarts == 2

Calls == 1..NumCalls

\* Failures the protected operation may raise (identities of Error objects).
OpErrors == {"e1", "e2"}
\* The Error execute() raises itself: new Error('Circuit breaker is open').
CircuitOpenError == "Circuit breaker is open"
\* JavaScript null, as the value of lastError.
Null == "null"
\* JavaScript null, as the value of resetTimer (handles are positive numbers).
NoTimer == 0

\* The `states` table of createCircuitBreaker.
CLOSED == "closed"
OPEN == "open"
HALF_OPEN == "half-open"
states == {CLOSED, OPEN, HALF_OPEN}

VARIABLES
  failureThreshold,  \* option failureThreshold
  resetTimeout,      \* option resetTimeout
  state,             \* let state
  failures,          \* let failures
  resetTimer,        \* let resetTimer: NoTimer or the handle of the last setTimeout
  lastError,         \* let lastError
  timers,            \* the timer facility: pending timers, [id, delay]
  callPc,            \* per execute() call: "idle" or "awaiting" (at `await fn()`)
  admittedIn,        \* per pending call: breaker state when its operation was invoked
  probes,            \* operations invoked during the current HalfOpen visit
  consecutive,       \* operation failures since the last operation success,
                     \* counted up to failureThreshold
  last,              \* what the last step did: [ev, call, thrown, from, admitted]:
                     \* `from` the breaker state it started in, `admitted` the
                     \* state in which the call it completes was admitted
  \* --- retryWithBackoff
  maxRetries,        \* option maxRetries
  baseDelay,         \* option baseDelay
  maxDelay,          \* option maxDelay
  onLine,            \* navigator.onLine
  retries,           \* let retries
  retryPc,           \* "idle", "calling" (await fn()), "waiting" (await the
                     \* delay), "returned" or "thrown"
  retryDelay,        \* delay of the pending setTimeout, in 1/100 of a time unit
  retryOutcome,      \* what the call returned or threw
  invocations,       \* number of times fn was invoked
  delaysScheduled,   \* number of setTimeout calls
  lastFailure,       \* the failure raised by the latest invocation of fn
  allRetryable,      \* every failure caught so far satisfied shouldRetry
  cancelled,         \* the caller has given up on the pending call
  \* --- fallbackChain
  fns,               \* the argument: [present, len]; its functions are 1..len
  fbPc,              \* "idle", "calling" (await fn()), "returned" or "thrown"
  fbIndex,           \* position of the loop: the function being awaited
  fbLastError,       \* let lastError
  fbOutcome,         \* what the call returned or threw: [kind, value, error]
  fbInvoked,         \* the functions invoked so far, in order of invocation
  fbLog,             \* the outcome of each invocation that completed: [fn, ok, error]
  \* --- classifyError calls
  classified,        \* the calls made so far: [error, online, kind]
  \* --- usePlayAiWebSocket
  hookStatus,        \* the status state: 'disconnected', 'connecting', 'connected' or 'error'
  hookError,         \* the error state: the message of the last error, "" for null
  socketRef,         \* socketRef.current: a socket of `sockets`, or NoSocket
  reconnectTimeoutRef, \* reconnectTimeoutRef.current: a timer handle, or NoTimer
  reconnectAttemptsRef, \* reconnectAttemptsRef.current
  sockets,           \* the WebSockets created so far: [readyState, opened]
  hookTimers,        \* pending setTimeout(connect) timers: [id, delay]
  userDisconnected,  \* disconnect() was called and the caller has not called connect() since
  hookLast,          \* the step taken last: what it notified, returned and delivered
  \* --- createConversation
  convStatus,        \* let status
  convSocket,        \* let socket: a socket of convSockets, or NoSocket
  convSockets,       \* the WebSockets created so far: [readyState, opened]
  convLast,          \* the step taken last: what it notified, returned and called back
  \* --- createResilientApiCall
  useRetry,          \* option useRetry
  retryOptions,      \* option retryOptions: [maxRetries]
  fallbacks,         \* option fallbacks: its length; the fallbacks are 1..fallbacks
  errorHandlers,     \* option errorHandlers: the kinds that have a callback
  circuitBreaker,    \* the options object carries a circuitBreaker property (the
                     \* breaker of this module)
  rcPc,              \* "idle", "primary" (await apiFn()), "waiting" (await the
                     \* retry delay), "fallback" (await a fallback), "returned"
                     \* or "thrown"
  rcRetries,         \* `retries` of the retryWithBackoff call inside mainFn
  rcIndex,           \* position in [mainFn, ...fallbacks]: 0 is mainFn
  rcLastError,       \* `lastError` of the fallbackChain call
  rcOutcome,         \* what the wrapped function returned or threw: [kind, error]
  rcInvoked,         \* the operations invoked, in order: 0 is apiFn, i is fallback i
  rcLog,             \* the outcome of each completed invocation:
                     \* [op, ok, error, retryable]
  rcHandled,         \* the kinds whose error handler was called
  \* --- monitorWebSocketConnection
  maxReconnects,     \* option maxReconnects
  currentSocket,     \* let currentSocket: a socket of monSockets
  reconnectAttempts, \* let reconnectAttempts
  reconnectTimeout,  \* let reconnectTimeout: a timer handle, or NoTimer
  isMonitoring,      \* let isMonitoring
  monSockets,        \* the socket given and those createSocket returned:
                     \* [closed, listening], listening when handleClose is a
                     \* 'close' listener of the socket
  monTimers,         \* pending reconnect timers: [id, delay]
  monTimersSet,      \* number of setTimeout calls so far
  monStarts,         \* number of monitoring periods begun
  monCreated,        \* createSocket calls since the last period began
  monLast            \* the step taken last: [ev, monitoring, onReconnect,
                     \* onMaxReconnects]

breakerVars == <<failureThreshold, resetTimeout, state, failures, resetTimer,
                 lastError, timers, callPc, admittedIn, probes, consecutive, last>>

retryVars == <<maxRetries, baseDelay, maxDelay, onLine, retries, retryPc, retryDelay,
               retryOutcome, invocations, delaysScheduled, lastFailure, allRetryable,
                 cancelled>>

fallbackVars == <<fns, fbPc, fbIndex, fbLastError, fbOutcome, fbInvoked, fbLog>>

classifyVars == <<classified>>

hookVars == <<hookStatus, hookError, socketRef, reconnectTimeoutRef, reconnectAttemptsRef,
              sockets, hookTimers, userDisconnected, hookLast>>

convVars == <<convStatus, convSocket, convSockets, convLast>>

facadeVars == <<useRetry, retryOptions, fallbacks, errorHandlers, circuitBreaker, rcPc,
                rcRetries, rcIndex, rcLastError, rcOutcome, rcInvoked, rcLog, rcHandled>>

monitorVars == <<maxReconnects, currentSocket, reconnectAttempts, reconnectTimeout,
                 isMonitoring, monSockets, monTimers, monTimersSet, monStarts, monCreated,
                 monLast>>

vars == <<breakerVars, retryVars, fallbackVars, classifyVars, hookVars, convVars,
          facadeVars, monitorVars>>

\* Variables of the other components, which no breaker step touches.
breakerOthers == <<retryVars, fallbackVars, classifyVars, hookVars, convVars,
                   facadeVars, monitorVars>>

\* Variables of the other components, which no retry step touches.
retryOthers == <<breakerVars, fallbackVars, classifyVars, hookVars, convVars,
                   facadeVars, monitorVars>>

\* Variables of the other components, which no fallback-chain step touches.
fallbackOthers == <<breakerVars, retryVars, classifyVars, hookVars, convVars,
                   facadeVars, monitorVars>>

\* Variables of the other components, which no classifyError call touches.
classifyOthers == <<breakerVars, retryVars, fallbackVars, hookVars, convVars,
                   facadeVars, monitorVars>>

\* Variables of the other components, which no step of the hook touches.
hookOthers == <<breakerVars, retryVars, fallbackVars, classifyVars, convVars,
                   facadeVars, monitorVars>>

\* Variables of the other components, which no step of a conversation touches.
convOthers == <<breakerVars, retryVars, fallbackVars, classifyVars, hookVars,
                   facadeVars, monitorVars>>

\* Variables of the other components, which no step of a resilient call touches.
facadeOthers == <<breakerVars, retryVars, fallbackVars, classifyVars, hookVars, convVars,
                  monitorVars>>

\* Variables of the other components, which no step of a monitor touches.
monitorOthers == <<breakerVars, retryVars, fallbackVars, classifyVars, hookVars, convVars,
                   facadeVars>>

\* -------------------------------------------------------- timer facility
TimerIds == 1..(NumCalls + 2)

\* clearTimeout(handle): a no-op for null and for handles no longer pending.
clearTimeout(ts, h) == {t \in ts : t.id # h}

\* The handle setTimeout returns: fresh among the pending ones and the one held.
NewTimerId(ts, held) ==
  CHOOSE i \in TimerIds :
    /\ i # held
    /\ \A t \in ts : t.id # i
    /\ \A j \in TimerIds : (j # held /\ \A t \in ts : t.id # j) => i <= j

\* Variant of scheduleReset with `if (resetTimer) return;` in place of the
\* clearTimeout: a handle already held suppresses the new timer.
scheduleResetIfNone(ts, held, delay) ==
  IF held # NoTimer THEN ts
  ELSE ts \cup {[id |-> NewTimerId(ts, held), delay |-> delay]}

\* scheduleReset(): clearTimeout(resetTimer) if set, then setTimeout(cb, resetTimeout).
\* Yields the pending timers afterwards; resetTimer becomes NewTimerId(ts, held).
scheduleReset(ts, held, delay) ==
  LET cleared == IF held # NoTimer THEN clearTimeout(ts, held) ELSE ts
  IN  cleared \cup {[id |-> NewTimerId(ts, held), delay |-> delay]}

\* A reset timer is pending: scheduled and neither fired nor cancelled.
TimerPending == \E t \in timers : t.id = resetTimer

\* ------------------------------------------------------- circuit breaker
BreakerInit ==
  /\ failureThreshold \in 1..MaxThreshold
  /\ resetTimeout = ResetTimeoutTried
  /\ state = CLOSED
  /\ failures = 0
  /\ resetTimer = NoTimer
  /\ lastError = Null
  /\ timers = {}
  /\ callPc = [c \in Calls |-> "idle"]
  /\ admittedIn = [c \in Calls |-> "none"]
  /\ probes = 0
  /\ consecutive = 0
  /\ last = [ev |-> "init", call |-> 0, thrown |-> "none", from |-> CLOSED, admitted |-> "none"]

\* Variant of executeOpen without the `state === OPEN` rejection: the call
\* falls through to `await fn()`.
executeOpenUnguarded(c) ==
  /\ callPc[c] = "idle"
  /\ state = OPEN
  /\ callPc' = [callPc EXCEPT ![c] = "awaiting"]
  /\ admittedIn' = [admittedIn EXCEPT ![c] = state]
  /\ last' = [ev |-> "invoked", call |-> c, thrown |-> "none", from |-> state, admitted |-> "none"]
  /\ UNCHANGED <<failureThreshold, resetTimeout, state, failures, resetTimer,
                 lastError, timers, probes, consecutive>>
  /\ UNCHANGED breakerOthers

\* execute(fn) while state === OPEN: throws before fn is touched.
executeOpen(c) ==
  /\ callPc[c] = "idle"
  /\ state = OPEN
  /\ last' = [ev |-> "rejected", call |-> c, thrown |-> CircuitOpenError, from |-> state, admitted |-> "none"]
  /\ UNCHANGED <<failureThreshold, resetTimeout, state, failures, resetTimer,
                 lastError, timers, callPc, admittedIn, probes, consecutive>>
  /\ UNCHANGED breakerOthers

\* execute(fn) otherwise: fn() is invoked and the call suspends at the await.
executeInvoke(c) ==
  /\ callPc[c] = "idle"
  /\ state # OPEN
  /\ callPc' = [callPc EXCEPT ![c] = "awaiting"]
  /\ admittedIn' = [admittedIn EXCEPT ![c] = state]
  /\ probes' = IF state = HALF_OPEN THEN probes + 1 ELSE probes
  /\ last' = [ev |-> "invoked", call |-> c, thrown |-> "none", from |-> state, admitted |-> "none"]
  /\ UNCHANGED <<failureThreshold, resetTimeout, state, failures, resetTimer,
                 lastError, timers, consecutive>>
  /\ UNCHANGED breakerOthers

\* `state` after the try branch: HALF_OPEN becomes CLOSED.
successState(s) == IF s = HALF_OPEN THEN CLOSED ELSE s

\* Variant of successFailures that omits `failures = 0`.
successFailuresKept(s, f) == f

\* `failures` after the try branch: zeroed only inside `if (state === HALF_OPEN)`.
successFailures(s, f) == IF s = HALF_OPEN THEN 0 ELSE f

\* The try branch after `await fn()` resolved.
executeSuccess(c) ==
  /\ callPc[c] = "awaiting"
  /\ state' = successState(state)
  /\ failures' = successFailures(state, failures)
  /\ callPc' = [callPc EXCEPT ![c] = "idle"]
  /\ consecutive' = 0
  /\ last' = [ev |-> "success", call |-> c, thrown |-> "none", from |-> state,
              admitted |-> admittedIn[c]]
  /\ admittedIn' = [admittedIn EXCEPT ![c] = "none"]
  /\ UNCHANGED <<failureThreshold, resetTimeout, resetTimer, lastError, timers, probes>>
  /\ UNCHANGED breakerOthers

\* The catch branch after `await fn()` rejected with error e.
executeFailure(c, e) ==
  /\ callPc[c] = "awaiting"
  /\ lastError' = e
  /\ IF state = HALF_OPEN
       THEN /\ state' = OPEN
            /\ timers' = scheduleReset(timers, resetTimer, resetTimeout)
            /\ resetTimer' = NewTimerId(timers, resetTimer)
            /\ UNCHANGED failures
       ELSE IF state = CLOSED
         THEN /\ failures' = failures + 1
              /\ IF failures + 1 >= failureThreshold
                   THEN /\ state' = OPEN
                        /\ timers' = scheduleReset(timers, resetTimer, resetTimeout)
                        /\ resetTimer' = NewTimerId(timers, resetTimer)
                   ELSE UNCHANGED <<state, timers, resetTimer>>
         ELSE UNCHANGED <<state, failures, timers, resetTimer>>
  /\ callPc' = [callPc EXCEPT ![c] = "idle"]
  /\ consecutive' = IF consecutive < failureThreshold THEN consecutive + 1
                     ELSE consecutive
  /\ last' = [ev |-> "failure", call |-> c, thrown |-> e, from |-> state,
              admitted |-> admittedIn[c]]
  /\ admittedIn' = [admittedIn EXCEPT ![c] = "none"]
  /\ UNCHANGED <<failureThreshold, resetTimeout, probes>>
  /\ UNCHANGED breakerOthers

\* Variant of resetTimerTarget whose callback leaves the state alone.
resetTimerTargetStuck(s) == s

\* The state the timeout callback of scheduleReset leaves.
resetTimerTarget(s) == IF s = OPEN THEN HALF_OPEN ELSE s

\* The callback scheduleReset passed to setTimeout runs.
resetTimerFired(t) ==
  /\ t \in timers
  /\ timers' = timers \ {t}
  /\ state' = resetTimerTarget(state)
  /\ probes' = IF state' = HALF_OPEN /\ state # HALF_OPEN THEN 0 ELSE probes
  /\ last' = [ev |-> "timer", call |-> 0, thrown |-> "none", from |-> state, admitted |-> "none"]
  /\ UNCHANGED <<failureThreshold, resetTimeout, failures, resetTimer, lastError,
                 callPc, admittedIn, consecutive>>
  /\ UNCHANGED breakerOthers

\* Variant of resetTimers that omits the clearTimeout.
resetTimersKept(ts, held) == ts

\* The pending timers reset() leaves.
resetTimers(ts, held) == IF held # NoTimer THEN clearTimeout(ts, held) ELSE ts

\* reset()
reset ==
  /\ state' = CLOSED
  /\ failures' = 0
  /\ timers' = resetTimers(timers, resetTimer)
  /\ resetTimer' = NoTimer
  /\ consecutive' = 0
  /\ last' = [ev |-> "reset", call |-> 0, thrown |-> "none", from |-> state, admitted |-> "none"]
  /\ UNCHANGED <<failureThreshold, resetTimeout, lastError, callPc, admittedIn, probes>>
  /\ UNCHANGED breakerOthers

\* ------------------------------------------------------ error classifier
\* ErrorTypes
AUTHENTICATION == "authentication"
NETWORK == "network"
SERVER == "server"
RATE_LIMIT == "rate_limit"
VALIDATION == "validation"
PERMISSION == "permission"
RESOURCE_NOT_FOUND == "resource_not_found"
TIMEOUT == "timeout"
UNKNOWN == "unknown"
ErrorTypes == {AUTHENTICATION, NETWORK, SERVER, RATE_LIMIT, VALIDATION, PERMISSION,
               RESOURCE_NOT_FOUND, TIMEOUT, UNKNOWN}

\* A failure value: `present` is FALSE for a falsy value (null, undefined);
\* status and statusCode are 0 when absent and message is "" when absent, which
\* is what `error.status || error.statusCode || 0` and `error.message || ''`
\* make of an absent field.
Failure(st, sc, msg) == [present |-> TRUE, status |-> st, statusCode |-> sc, message |-> msg]
NoError == [present |-> FALSE, status |-> 0, statusCode |-> 0, message |-> ""]

\* String.prototype.includes: pat occurs in msg as a contiguous, case-sensitive run.
includes(msg, pat) ==
  \E i \in 1..(Len(msg) - Len(pat) + 1) : SubSeq(msg, i, i + Len(pat) - 1) = pat

\* Variant of statusOf that reads the fields in the other order:
\* `error.statusCode || error.status || 0`.
statusOfStatusCodeFirst(error) ==
  IF error.statusCode # 0 THEN error.statusCode
  ELSE IF error.status # 0 THEN error.status
  ELSE 0

\* const status = error.status || error.statusCode || 0
statusOf(error) ==
  IF error.status # 0 THEN error.status
  ELSE IF error.statusCode # 0 THEN error.statusCode
  ELSE 0

\* The conditions of the classifier's if statements, on the message and the
\* status it has extracted and on navigator.onLine.
matchesNetwork(message, status, online) ==
  includes(message, "network") \/ includes(message, "connection") \/ ~online

matchesAuthentication(message, status, online) ==
  \/ status = 401
  \/ includes(message, "unauthorized")
  \/ includes(message, "authentication")
  \/ includes(message, "invalid credentials")
  \/ includes(message, "api key")

matchesRateLimit(message, status, online) ==
  status = 429 \/ includes(message, "rate limit") \/ includes(message, "too many requests")

matchesServer(message, status, online) ==
  status >= 500 \/ includes(message, "server error") \/ includes(message, "internal error")

matchesValidation(message, status, online) ==
  status = 400 \/ includes(message, "validation") \/ includes(message, "invalid")

matchesPermission(message, status, online) ==
  status = 403 \/ includes(message, "permission") \/ includes(message, "forbidden")

matchesNotFound(message, status, online) ==
  status = 404 \/ includes(message, "not found")

matchesTimeout(message, status, online) ==
  includes(message, "timeout") \/ includes(message, "timed out")

\* Variant of classifyError that tries the server rule before the rate-limit rule.
classifyErrorServerFirst(error, online) ==
  IF ~error.present THEN UNKNOWN
  ELSE LET message == error.message
           status == statusOf(error)
       IN
    IF matchesNetwork(message, status, online) THEN NETWORK
    ELSE IF matchesAuthentication(message, status, online) THEN AUTHENTICATION
    ELSE IF matchesServer(message, status, online) THEN SERVER
    ELSE IF matchesRateLimit(message, status, online) THEN RATE_LIMIT
    ELSE IF matchesValidation(message, status, online) THEN VALIDATION
    ELSE IF matchesPermission(message, status, online) THEN PERMISSION
    ELSE IF matchesNotFound(message, status, online) THEN RESOURCE_NOT_FOUND
    ELSE IF matchesTimeout(message, status, online) THEN TIMEOUT
    ELSE UNKNOWN

\* classifyError(error), with navigator.onLine = online: the if statements in
\* the order of the source.
classifyError(error, online) ==
  IF ~error.present THEN UNKNOWN
  ELSE LET message == error.message
           status == statusOf(error)
       IN
    IF matchesNetwork(message, status, online) THEN NETWORK
    ELSE IF matchesAuthentication(message, status, online) THEN AUTHENTICATION
    ELSE IF matchesRateLimit(message, status, online) THEN RATE_LIMIT
    ELSE IF matchesServer(message, status, online) THEN SERVER
    ELSE IF matchesValidation(message, status, online) THEN VALIDATION
    ELSE IF matchesPermission(message, status, online) THEN PERMISSION
    ELSE IF matchesNotFound(message, status, online) THEN RESOURCE_NOT_FOUND
    ELSE IF matchesTimeout(message, status, online) THEN TIMEOUT
    ELSE UNKNOWN

\* ------------------------------------------------------ retryWithBackoff
\* Variant of shouldRetry whose list lacks ErrorTypes.RATE_LIMIT.
shouldRetryNoRateLimit(error, online) ==
  classifyError(error, online) \in {NETWORK, SERVER, TIMEOUT}

\* The default shouldRetry option.
shouldRetry(error, online) ==
  classifyError(error, online) \in {NETWORK, SERVER, TIMEOUT, RATE_LIMIT}

\* Failures the retried operation may raise.
RetryFailures ==
  {Failure(st, 0, msg) : st \in {0, 400, 429, 503},
                         msg \in {"", "request timed out", "invalid input"}}

\* baseDelay and maxDelay options tried (time units).
BaseDelays == {10}
MaxDelays == {45, 100}

\* Values of 0.8 + Math.random() * 0.4, in hundredths; Math.random() is in [0, 1).
Jitter == {80, 100, 119}

Min(a, b) == IF a <= b THEN a ELSE b

\* Variant of backoffDelay without the Math.min(maxDelay, ...).
backoffDelayUncapped(base, cap, n, j) == base * (2 ^ n) * j

\* Math.min(maxDelay, baseDelay * Math.pow(2, retries) * jitter), in hundredths
\* of a time unit, for jitter j given in hundredths.
backoffDelay(base, cap, n, j) == Min(cap * 100, base * (2 ^ n) * j)

\* The object an invocation of fn rejects with: f raised by invocation number n.
Raised(n, f) == [attempt |-> n, failure |-> f]
NoFailure == Raised(0, NoError)

\* Variant of thrownError that throws a new Error wrapping the caught one.
thrownErrorWrapped(n, f) == Raised(n, Failure(0, 0, "retry failed"))

\* `throw error`: the object caught from invocation n is rethrown as it is.
thrownError(n, f) == Raised(n, f)

RetryInit ==
  /\ maxRetries \in 0..MaxRetries
  /\ baseDelay \in BaseDelays
  /\ maxDelay \in MaxDelays
  /\ onLine \in BOOLEAN
  /\ retries = 0
  /\ retryPc = "idle"
  /\ retryDelay = 0
  /\ retryOutcome = [kind |-> "none", error |-> NoFailure]
  /\ invocations = 0
  /\ delaysScheduled = 0
  /\ lastFailure = NoFailure
  /\ allRetryable = TRUE
  /\ cancelled = FALSE

\* retryWithBackoff(fn, options) is called: retries = 0 and the first fn() is
\* invoked; the call suspends at `await fn()`.
retryWithBackoff ==
  /\ retryPc = "idle"
  /\ retries' = 0
  /\ invocations' = invocations + 1
  /\ retryPc' = "calling"
  /\ UNCHANGED <<maxRetries, baseDelay, maxDelay, onLine, retryDelay, retryOutcome,
                 delaysScheduled, lastFailure, allRetryable,
                 cancelled>>
  /\ UNCHANGED retryOthers

\* `return await fn()` with fn() resolved.
retryReturn ==
  /\ retryPc = "calling"
  /\ retryPc' = "returned"
  /\ retryOutcome' = [kind |-> "returned", error |-> NoFailure]
  /\ UNCHANGED <<maxRetries, baseDelay, maxDelay, onLine, retries, retryDelay,
                 invocations, delaysScheduled, lastFailure, allRetryable,
                 cancelled>>
  /\ UNCHANGED retryOthers

\* Variant of givesUp with `retries > maxRetries`.
givesUpOffByOne(n, limit, error, online) == n > limit \/ ~shouldRetry(error, online)

\* The condition of `if (retries >= maxRetries || !shouldRetry(error)) throw error`.
givesUp(n, limit, error, online) == n >= limit \/ ~shouldRetry(error, online)

\* The catch branch with fn() rejected with failure f; j is the jitter drawn.
retryCatch(f, j) ==
  /\ retryPc = "calling"
  /\ lastFailure' = Raised(invocations, f)
  /\ allRetryable' = (allRetryable /\ shouldRetry(f, onLine))
  /\ IF givesUp(retries, maxRetries, f, onLine)
       THEN /\ retryPc' = "thrown"
            /\ retryOutcome' = [kind |-> "thrown", error |-> thrownError(invocations, f)]
            /\ UNCHANGED <<retryDelay, delaysScheduled>>
       ELSE /\ retryPc' = "waiting"
            /\ retryDelay' = backoffDelay(baseDelay, maxDelay, retries, j)
            /\ delaysScheduled' = delaysScheduled + 1
            /\ UNCHANGED retryOutcome
  /\ UNCHANGED <<maxRetries, baseDelay, maxDelay, onLine, retries, invocations,
                 cancelled>>
  /\ UNCHANGED retryOthers

\* The delay elapsed: retries++, and the loop invokes fn() again.
retryResume ==
  /\ retryPc = "waiting"
  /\ retries' = retries + 1
  /\ invocations' = invocations + 1
  /\ retryPc' = "calling"
  /\ retryDelay' = 0
  /\ UNCHANGED <<maxRetries, baseDelay, maxDelay, onLine, retryOutcome,
                 delaysScheduled, lastFailure, allRetryable,
                 cancelled>>
  /\ UNCHANGED retryOthers

\* The caller gives up on the call while it waits for the delay.  The function
\* takes no cancellation signal and hands out no timer handle, so nothing of the
\* call's own state is reachable from the caller.
retryCancel ==
  /\ retryPc = "waiting"
  /\ ~cancelled
  /\ cancelled' = TRUE
  /\ UNCHANGED <<maxRetries, baseDelay, maxDelay, onLine, retries, retryPc, retryDelay,
                 retryOutcome, invocations, delaysScheduled, lastFailure, allRetryable>>
  /\ UNCHANGED retryOthers

\* The browser's connectivity changes.
onLineChanges ==
  /\ onLine' = ~onLine
  /\ UNCHANGED <<maxRetries, baseDelay, maxDelay, retries, retryPc, retryDelay,
                 retryOutcome, invocations, delaysScheduled, lastFailure, allRetryable,
                 cancelled>>
  /\ UNCHANGED retryOthers

RetryNext ==
  \/ retryWithBackoff
  \/ retryReturn
  \/ \E f \in RetryFailures, j \in Jitter : retryCatch(f, j)
  \/ retryResume
  \/ retryCancel
  \/ onLineChanges

\* --------------------------------------------------------- fallbackChain
\* Failures the functions of a chain may raise.
FbFailures == {Failure(503, 0, ""), Failure(0, 0, "request timed out"),
               Failure(400, 0, "invalid input")}

\* The object function i rejects with, and JavaScript null for lastError.
FbRaised(i, f) == [fn |-> i, failure |-> f]
NoRaised == FbRaised(0, NoError)

\* new Error('No fallback functions provided')
EmptyChainError == FbRaised(0, Failure(0, 0, "No fallback functions provided"))
\* new Error('All fallback options failed')
AllFailedError == FbRaised(0, Failure(0, 0, "All fallback options failed"))

\* Variant of isEmptyChain that tests `!fns` only.
isEmptyChainAbsentOnly(f) == ~f.present

\* `!fns || !fns.length`
isEmptyChain(f) == ~f.present \/ f.len = 0

\* Variant of recordError that keeps the first error: `lastError = lastError || error`.
recordFirstError(prev, err) == IF prev.failure.present THEN prev ELSE err

\* `lastError = error`
recordError(prev, err) == err

\* `throw lastError || new Error('All fallback options failed')`
chainThrows(le) == IF le.failure.present THEN le ELSE AllFailedError

FbNone == [kind |-> "none", value |-> 0, error |-> NoRaised]

FallbackInit ==
  /\ fns \in {[present |-> FALSE, len |-> 0]} \cup
             {[present |-> TRUE, len |-> n] : n \in 0..MaxChain}
  /\ fbPc = "idle"
  /\ fbIndex = 0
  /\ fbLastError = NoRaised
  /\ fbOutcome = FbNone
  /\ fbInvoked = <<>>
  /\ fbLog = <<>>

\* fallbackChain(fns) is called: the guard, then the first function is invoked
\* and the call suspends at `await fn()`.
fallbackChain ==
  /\ fbPc = "idle"
  /\ fbLastError' = NoRaised
  /\ IF isEmptyChain(fns)
       THEN /\ fbPc' = "thrown"
            /\ fbOutcome' = [kind |-> "thrown", value |-> 0, error |-> EmptyChainError]
            /\ UNCHANGED <<fbIndex, fbInvoked>>
       ELSE IF fns.len = 0
         THEN /\ fbPc' = "thrown"
              /\ fbOutcome' = [kind |-> "thrown", value |-> 0, error |-> chainThrows(NoRaised)]
              /\ UNCHANGED <<fbIndex, fbInvoked>>
         ELSE /\ fbPc' = "calling"
              /\ fbIndex' = 1
              /\ fbInvoked' = <<1>>
              /\ UNCHANGED fbOutcome
  /\ UNCHANGED <<fns, fbLog>>
  /\ UNCHANGED fallbackOthers

\* Variant of fbResolve without the `return`: the loop goes on after a success.
fbResolveContinues ==
  /\ fbPc = "calling"
  /\ fbLog' = Append(fbLog, [fn |-> fbIndex, ok |-> TRUE, error |-> NoRaised])
  /\ IF fbIndex < fns.len
       THEN /\ fbIndex' = fbIndex + 1
            /\ fbInvoked' = Append(fbInvoked, fbIndex + 1)
            /\ UNCHANGED <<fbPc, fbOutcome>>
       ELSE /\ fbPc' = "returned"
            /\ fbOutcome' = [kind |-> "returned", value |-> fbIndex, error |-> NoRaised]
            /\ UNCHANGED <<fbIndex, fbInvoked>>
  /\ UNCHANGED <<fns, fbLastError>>
  /\ UNCHANGED fallbackOthers

\* `return await fn()` with fn() resolved: the result of function fbIndex.
fbResolve ==
  /\ fbPc = "calling"
  /\ fbPc' = "returned"
  /\ fbOutcome' = [kind |-> "returned", value |-> fbIndex, error |-> NoRaised]
  /\ fbLog' = Append(fbLog, [fn |-> fbIndex, ok |-> TRUE, error |-> NoRaised])
  /\ UNCHANGED <<fns, fbIndex, fbLastError, fbInvoked>>
  /\ UNCHANGED fallbackOthers

\* The catch branch with fn() rejected with failure f: the loop goes on to the
\* next function, or falls out of the loop and throws.
fbReject(f) ==
  /\ fbPc = "calling"
  /\ fbLastError' = recordError(fbLastError, FbRaised(fbIndex, f))
  /\ fbLog' = Append(fbLog, [fn |-> fbIndex, ok |-> FALSE, error |-> FbRaised(fbIndex, f)])
  /\ IF fbIndex < fns.len
       THEN /\ fbIndex' = fbIndex + 1
            /\ fbInvoked' = Append(fbInvoked, fbIndex + 1)
            /\ UNCHANGED <<fbPc, fbOutcome>>
       ELSE /\ fbPc' = "thrown"
            /\ fbOutcome' = [kind |-> "thrown", value |-> 0,
                             error |-> chainThrows(fbLastError')]
            /\ UNCHANGED <<fbIndex, fbInvoked>>
  /\ UNCHANGED fns
  /\ UNCHANGED fallbackOthers

FallbackNext ==
  \/ fallbackChain
  \/ fbResolve
  \/ \E f \in FbFailures : fbReject(f)

\* ---------------------------------------------------- classifyError calls
\* Values classifyError is called with: nothing, and failures with or without
\* a status, a statusCode and a message.
ClassifyFailures ==
  {NoError}
  \cup {Failure(st, 0, msg) : st \in {0, 401, 404, 500},
                              msg \in {"", "connection lost", "rate limit exceeded",
                                       "request timeout"}}
  \cup {Failure(429, 0, ""), Failure(0, 429, ""), Failure(400, 429, ""), Failure(400, 0, "")}

ClassifyInit == classified = <<>>

\* classifyError(e) is called and returns.
classifyErrorCall(e) ==
  /\ Len(classified) < MaxClassified
  /\ classified' = Append(classified,
                          [error |-> e, online |-> onLine, kind |-> classifyError(e, onLine)])
  /\ UNCHANGED classifyOthers

ClassifyNext ==
  \/ \E e \in ClassifyFailures : classifyErrorCall(e)
  \/ onLineChanges

\* ---------------------------------------------------- usePlayAiWebSocket
MAX_RECONNECT_ATTEMPTS == 5
RECONNECT_DELAY == 2000

\* The default of retryWithBackoff's maxDelay option.
DEFAULT_MAX_DELAY == 10000

\* socketRef.current = null
NoSocket == 0

\* The next WebSocket is numbered after the ones created so far; a reconnect
\* timer carries the number of the socket whose close event set it.
socketsCreated == Cardinality(DOMAIN sockets)

\* The guard of connect(): the socket held is open or connecting.
alreadyConnected ==
  /\ socketRef # NoSocket
  /\ sockets[socketRef].readyState \in {"OPEN", "CONNECTING"}

\* WebSocket.close(): starts closing a socket that is connecting or open, and
\* does nothing to one that is closing or closed.
closeSocket(ss, s) ==
  IF ss[s].readyState \in {"CONNECTING", "OPEN"}
    THEN [ss EXCEPT ![s].readyState = "CLOSING"]
    ELSE ss

\* What a step did: the statuses it passed to onStatusChange, in order; for
\* sendMessage the value returned and whether the message reached
\* WebSocket.send; for onmessage whether onMessage was called; for onclose the
\* event's wasClean.
HookStep(ev, s, notes) ==
  [ev |-> ev, socket |-> s, notified |-> notes,
   returned |-> FALSE, handed |-> FALSE, delivered |-> FALSE, wasClean |-> FALSE]

HookInit ==
  /\ hookStatus = "disconnected"
  /\ hookError = ""
  /\ socketRef = NoSocket
  /\ reconnectTimeoutRef = NoTimer
  /\ reconnectAttemptsRef = 0
  /\ sockets = <<>>
  /\ hookTimers = {}
  /\ userDisconnected = FALSE
  /\ hookLast = HookStep("init", NoSocket, <<>>)

\* The body of connect(): nothing when the socket held is open or connecting;
\* otherwise status 'connecting' and a new WebSocket with the four handlers.
connectBody ==
  IF alreadyConnected
    THEN UNCHANGED <<hookStatus, socketRef, sockets>>
    ELSE /\ hookStatus' = "connecting"
         /\ sockets' = Append(sockets, [readyState |-> "CONNECTING", opened |-> FALSE])
         /\ socketRef' = socketsCreated + 1

\* The statuses connect() notifies.
connectNotes == IF alreadyConnected THEN <<>> ELSE <<"connecting">>

\* The caller calls connect().
connect ==
  /\ connectBody
  /\ userDisconnected' = FALSE
  /\ hookLast' = HookStep("connect", socketRef', connectNotes)
  /\ UNCHANGED <<hookError, reconnectTimeoutRef, reconnectAttemptsRef, hookTimers>>
  /\ UNCHANGED hookOthers

\* A reconnect timer fires after its delay: its callback calls connect().
\* The handle stays in reconnectTimeoutRef.
reconnectTimeoutFired(t) ==
  /\ t \in hookTimers
  /\ hookTimers' = hookTimers \ {t}
  /\ connectBody
  /\ hookLast' = HookStep("timer", socketRef', connectNotes)
  /\ UNCHANGED <<hookError, reconnectTimeoutRef, reconnectAttemptsRef, userDisconnected>>
  /\ UNCHANGED hookOthers

\* The open event of socket s: onopen.
onopen(s) ==
  /\ s \in DOMAIN sockets
  /\ sockets[s].readyState = "CONNECTING"
  /\ sockets' = [sockets EXCEPT ![s] = [readyState |-> "OPEN", opened |-> TRUE]]
  /\ hookStatus' = "connected"
  /\ reconnectAttemptsRef' = 0
  /\ hookLast' = HookStep("open", s, <<"connected">>)
  /\ UNCHANGED <<hookError, socketRef, reconnectTimeoutRef, hookTimers, userDisconnected>>
  /\ UNCHANGED hookOthers

\* A message event of socket s, which has opened and is not yet closed: onmessage.
\* JSON.parse succeeds (valid) and onMessage gets the data, or it throws and
\* handleError sets the error and the status 'error'.
onmessage(s, valid) ==
  /\ s \in DOMAIN sockets
  /\ sockets[s].readyState \in {"OPEN", "CLOSING"}
  /\ sockets[s].opened
  /\ IF valid
       THEN /\ hookLast' = [HookStep("message", s, <<>>) EXCEPT !.delivered = TRUE]
            /\ UNCHANGED <<hookStatus, hookError>>
       ELSE /\ hookLast' = HookStep("message", s, <<"error">>)
            /\ hookStatus' = "error"
            /\ hookError' = "Failed to parse message from server"
  /\ UNCHANGED <<socketRef, reconnectTimeoutRef, reconnectAttemptsRef, sockets, hookTimers,
                 userDisconnected>>
  /\ UNCHANGED hookOthers

\* Variant of maySchedule without the test of event.wasClean.
mayScheduleAnyClose(s, wasClean) ==
  reconnectAttemptsRef < MAX_RECONNECT_ATTEMPTS

\* `!event.wasClean && reconnectAttemptsRef.current < MAX_RECONNECT_ATTEMPTS`
maySchedule(s, wasClean) ==
  ~wasClean /\ reconnectAttemptsRef < MAX_RECONNECT_ATTEMPTS

\* The delay of the timer set by onclose with reconnectAttemptsRef.current = k
\* (already incremented).
reconnectDelayOf(k) == RECONNECT_DELAY

\* The connection of socket s ends: cleanly (closing handshake) or not, and
\* when it failed the error event comes first, in the same task. A socket that
\* never opened cannot close cleanly. onerror, then onclose: status
\* 'disconnected', then a reconnect is scheduled or the limit is reported.
onclose(s, wasClean, failed) ==
  /\ s \in DOMAIN sockets
  /\ sockets[s].readyState # "CLOSED"
  /\ wasClean => ~failed
  /\ ~sockets[s].opened => (~wasClean /\ failed)
  /\ sockets' = [sockets EXCEPT ![s].readyState = "CLOSED"]
  /\ LET errorNotes == IF failed THEN <<"error">> ELSE <<>> IN
     IF maySchedule(s, wasClean)
       THEN /\ reconnectAttemptsRef' = reconnectAttemptsRef + 1
            /\ reconnectTimeoutRef' = s
            /\ hookTimers' = hookTimers \cup
                 {[id |-> s, delay |-> reconnectDelayOf(reconnectAttemptsRef')]}
            /\ hookStatus' = "disconnected"
            /\ hookError' = IF failed THEN "WebSocket connection error" ELSE hookError
            /\ hookLast' = [HookStep("close", s, errorNotes \o <<"disconnected">>) EXCEPT
                               !.wasClean = wasClean]
       ELSE IF reconnectAttemptsRef >= MAX_RECONNECT_ATTEMPTS
         THEN /\ hookStatus' = "error"
              /\ hookError' = "Maximum reconnection attempts reached"
              /\ hookLast' = [HookStep("close", s, errorNotes \o <<"disconnected", "error">>)
                               EXCEPT !.wasClean = wasClean]
              /\ UNCHANGED <<reconnectAttemptsRef, reconnectTimeoutRef, hookTimers>>
         ELSE /\ hookStatus' = "disconnected"
              /\ hookError' = IF failed THEN "WebSocket connection error" ELSE hookError
              /\ hookLast' = [HookStep("close", s, errorNotes \o <<"disconnected">>) EXCEPT
                               !.wasClean = wasClean]
              /\ UNCHANGED <<reconnectAttemptsRef, reconnectTimeoutRef, hookTimers>>
  /\ UNCHANGED <<socketRef, userDisconnected>>
  /\ UNCHANGED hookOthers

\* The caller calls disconnect() (also the cleanup on unmount).
disconnect ==
  /\ hookTimers' = clearTimeout(hookTimers, reconnectTimeoutRef)
  /\ reconnectTimeoutRef' = NoTimer
  /\ IF socketRef # NoSocket
       THEN /\ sockets' = closeSocket(sockets, socketRef)
            /\ socketRef' = NoSocket
            /\ hookStatus' = "disconnected"
            /\ hookLast' = HookStep("disconnect", socketRef, <<"disconnected">>)
       ELSE /\ UNCHANGED <<sockets, socketRef, hookStatus>>
            /\ hookLast' = HookStep("disconnect", socketRef, <<>>)
  /\ userDisconnected' = TRUE
  /\ UNCHANGED <<hookError, reconnectAttemptsRef>>
  /\ UNCHANGED hookOthers

\* Variant of notConnected that tests `!socketRef.current` only.
notConnectedAbsentOnly == socketRef = NoSocket

\* `!socketRef.current || socketRef.current.readyState !== WebSocket.OPEN`
notConnected == socketRef = NoSocket \/ sockets[socketRef].readyState # "OPEN"

\* The caller calls sendMessage(message). A session that is not connected
\* reports an error and returns false. Otherwise the message is serialised and
\* passed to WebSocket.send: JSON.stringify may throw (serialisable = FALSE),
\* send throws on a connecting socket and drops the data without an exception
\* on a closing or closed one; an exception is caught and reported.
sendMessage(serialisable) ==
  /\ IF notConnected
       THEN /\ hookStatus' = "error"
            /\ hookError' = "WebSocket is not connected"
            /\ hookLast' = HookStep("send", socketRef, <<"error">>)
       ELSE IF ~serialisable \/ sockets[socketRef].readyState = "CONNECTING"
         THEN /\ hookStatus' = "error"
              /\ hookError' = "send failed"
              /\ hookLast' = HookStep("send", socketRef, <<"error">>)
         ELSE /\ hookLast' = [HookStep("send", socketRef, <<>>) EXCEPT
                                !.returned = TRUE,
                                !.handed = (sockets[socketRef].readyState = "OPEN")]
              /\ UNCHANGED <<hookStatus, hookError>>
  /\ UNCHANGED <<socketRef, reconnectTimeoutRef, reconnectAttemptsRef, sockets, hookTimers,
                 userDisconnected>>
  /\ UNCHANGED hookOthers

\* The model follows a session until it has created n sockets.
Within(n) == alreadyConnected \/ socketsCreated < n

HookNext ==
  \/ Within(MaxSockets) /\ connect
  \/ \E t \in hookTimers : Within(MaxSockets) /\ reconnectTimeoutFired(t)
  \/ \E s \in DOMAIN sockets : onopen(s)
  \/ \E s \in DOMAIN sockets, valid \in BOOLEAN : onmessage(s, valid)
  \/ \E s \in DOMAIN sockets, wasClean \in BOOLEAN, failed \in BOOLEAN :
       onclose(s, wasClean, failed)
  \/ disconnect
  \/ \E serialisable \in BOOLEAN : sendMessage(serialisable)

\* The service is unreachable: no socket opens and every connection fails.
HookOutageNext ==
  \/ Within(MaxOutageSockets) /\ connect
  \/ \E t \in hookTimers : Within(MaxOutageSockets) /\ reconnectTimeoutFired(t)
  \/ \E s \in DOMAIN sockets : onclose(s, FALSE, TRUE)
  \/ disconnect

\* ---------------------------------------------------- createConversation
\* What a step did: the statuses it passed to onStatusChange, in order; the
\* callback it called ("onMessage", "onTranscript", "onError" or "" for none);
\* for sendTextMessage the value returned and whether the message reached
\* WebSocket.send.
ConvStep(ev, s, notes) ==
  [ev |-> ev, socket |-> s, notified |-> notes, callback |-> "",
   returned |-> FALSE, handed |-> FALSE]

convSocketsCreated == Cardinality(DOMAIN convSockets)

ConvInit ==
  /\ convStatus = "disconnected"
  /\ convSocket = NoSocket
  /\ convSockets = <<>>
  /\ convLast = ConvStep("init", NoSocket, <<>>)

\* connect(): status 'connecting' and a new WebSocket with the four handlers,
\* whatever socket is held.
convConnect ==
  /\ convStatus' = "connecting"
  /\ convSockets' = Append(convSockets, [readyState |-> "CONNECTING", opened |-> FALSE])
  /\ convSocket' = convSocketsCreated + 1
  /\ convLast' = [ConvStep("connect", convSocket', <<"connecting">>) EXCEPT !.returned = TRUE]
  /\ UNCHANGED convOthers

\* The open event of socket s: onopen.
convOnopen(s) ==
  /\ s \in DOMAIN convSockets
  /\ convSockets[s].readyState = "CONNECTING"
  /\ convSockets' = [convSockets EXCEPT ![s] = [readyState |-> "OPEN", opened |-> TRUE]]
  /\ convStatus' = "connected"
  /\ convLast' = ConvStep("open", s, <<"connected">>)
  /\ UNCHANGED convSocket
  /\ UNCHANGED convOthers

\* The kinds of message event: data.type, or text that JSON.parse rejects.
ConvMessageKinds ==
  {"conversation_started", "transcript", "agent_response", "error", "other", "malformed"}

\* The callback onmessage calls for a message of the kind.
convCallbackOf(kind) ==
  CASE kind \in {"conversation_started", "agent_response", "other"} -> "onMessage"
    [] kind = "transcript" -> "onTranscript"
    [] kind \in {"error", "malformed"} -> "onError"

\* A message event of socket s, which has opened and is not yet closed: onmessage.
convOnmessage(s, kind) ==
  /\ s \in DOMAIN convSockets
  /\ convSockets[s].readyState \in {"OPEN", "CLOSING"}
  /\ convSockets[s].opened
  /\ convLast' = [ConvStep("message", s, <<>>) EXCEPT !.callback = convCallbackOf(kind)]
  /\ UNCHANGED <<convStatus, convSocket, convSockets>>
  /\ UNCHANGED convOthers

\* The connection of socket s ends; when it failed the error event comes first,
\* in the same task. onerror: status 'error'; onclose: status 'disconnected'.
convOnclose(s, wasClean, failed) ==
  /\ s \in DOMAIN convSockets
  /\ convSockets[s].readyState # "CLOSED"
  /\ wasClean => ~failed
  /\ ~convSockets[s].opened => (~wasClean /\ failed)
  /\ convSockets' = [convSockets EXCEPT ![s].readyState = "CLOSED"]
  /\ convStatus' = "disconnected"
  /\ convLast' = IF failed
                   THEN [ConvStep("close", s, <<"error", "disconnected">>) EXCEPT
                           !.callback = "onError"]
                   ELSE ConvStep("close", s, <<"disconnected">>)
  /\ UNCHANGED convSocket
  /\ UNCHANGED convOthers

\* disconnect(): closes and releases the socket held, then status
\* 'disconnected' in every case.
convDisconnect ==
  /\ IF convSocket # NoSocket
       THEN /\ convSockets' = closeSocket(convSockets, convSocket)
            /\ convSocket' = NoSocket
       ELSE UNCHANGED <<convSockets, convSocket>>
  /\ convStatus' = "disconnected"
  /\ convLast' = [ConvStep("disconnect", convSocket, <<"disconnected">>) EXCEPT
                    !.returned = TRUE]
  /\ UNCHANGED convOthers

\* `!socket || socket.readyState !== WebSocket.OPEN`
convNotConnected == convSocket = NoSocket \/ convSockets[convSocket].readyState # "OPEN"

\* sendTextMessage(text): without an open socket onError is called and false
\* returned; otherwise the message is serialised and passed to WebSocket.send,
\* and an exception of JSON.stringify (serialisable = FALSE) is caught and
\* reported.
convSendTextMessage(serialisable) ==
  /\ IF convNotConnected \/ ~serialisable
       THEN convLast' = [ConvStep("send", convSocket, <<>>) EXCEPT !.callback = "onError"]
       ELSE convLast' = [ConvStep("send", convSocket, <<>>) EXCEPT
                           !.returned = TRUE, !.handed = TRUE]
  /\ UNCHANGED <<convStatus, convSocket, convSockets>>
  /\ UNCHANGED convOthers

ConvNext ==
  \/ convSocketsCreated < MaxSockets /\ convConnect
  \/ \E s \in DOMAIN convSockets : convOnopen(s)
  \/ \E s \in DOMAIN convSockets, kind \in ConvMessageKinds : convOnmessage(s, kind)
  \/ \E s \in DOMAIN convSockets, wasClean \in BOOLEAN, failed \in BOOLEAN :
       convOnclose(s, wasClean, failed)
  \/ convDisconnect
  \/ \E serialisable \in BOOLEAN : convSendTextMessage(serialisable)

\* ------------------------------------------------ createResilientApiCall
\* Failures apiFn and the fallbacks may raise.
RcFailures == {Failure(503, 0, ""), Failure(401, 0, "")}

\* The errorHandlers objects tried: none, one for every kind, one for SERVER.
RcHandlerSets == {{}, ErrorTypes, {SERVER}}

RcNone == [kind |-> "none", error |-> NoFailure]

FacadeInit ==
  /\ useRetry \in BOOLEAN
  /\ retryOptions \in {[maxRetries |-> n] : n \in 0..MaxCallRetries}
  /\ fallbacks \in 0..MaxFallbacks
  /\ errorHandlers \in RcHandlerSets
  /\ circuitBreaker \in BOOLEAN
  /\ rcPc = "idle"
  /\ rcRetries = 0
  /\ rcIndex = 0
  /\ rcLastError = NoFailure
  /\ rcOutcome = RcNone
  /\ rcInvoked = <<>>
  /\ rcLog = <<>>
  /\ rcHandled = <<>>

\* Variant of mainGivesUp in which mainFn never retries.
mainGivesUpAtFirst(use, n, limit, error, online) == TRUE

\* mainFn rethrows the failure of apiFn: at once without useRetry, or when
\* retryWithBackoff gives up.
mainGivesUp(use, n, limit, error, online) == ~use \/ givesUp(n, limit, error, online)

\* Variant of handleApiError that always takes the default branch of the switch.
handleApiErrorDefaultOnly(error, handlers, online) ==
  IF UNKNOWN \in handlers THEN <<UNKNOWN>> ELSE <<>>

\* handleApiError(error, errorHandlers): the callbacks called, by kind.
handleApiError(error, handlers, online) ==
  LET errorType == classifyError(error.failure, online)
  IN  IF errorType \in handlers THEN <<errorType>> ELSE <<>>

\* The wrapped function is called: mainFn is invoked (directly, or as the
\* first function of fallbackChain), which invokes apiFn (directly, or as the
\* first attempt of retryWithBackoff); the call suspends at `await fn()`.
resilientCall ==
  /\ rcPc = "idle"
  /\ rcPc' = "primary"
  /\ rcRetries' = 0
  /\ rcIndex' = 0
  /\ rcLastError' = NoFailure
  /\ rcInvoked' = <<0>>
  /\ UNCHANGED <<useRetry, retryOptions, fallbacks, errorHandlers, circuitBreaker,
                 rcOutcome, rcLog, rcHandled>>
  /\ UNCHANGED facadeOthers

\* An awaited operation resolved: every enclosing function returns its result.
rcResolve ==
  /\ rcPc \in {"primary", "fallback"}
  /\ rcPc' = "returned"
  /\ rcOutcome' = [kind |-> "returned", error |-> NoFailure]
  /\ rcLog' = Append(rcLog, [op |-> rcIndex, ok |-> TRUE, error |-> NoFailure,
                             retryable |-> FALSE])
  /\ UNCHANGED <<useRetry, retryOptions, fallbacks, errorHandlers, circuitBreaker,
                 rcRetries, rcIndex, rcLastError, rcInvoked, rcHandled>>
  /\ UNCHANGED facadeOthers

\* The function at position rcIndex of the chain threw err.  Without
\* fallbacks there is no chain and the outer catch runs; with fallbacks the
\* loop of fallbackChain records the error and invokes the next function, and
\* after the last one throws, which the outer catch handles and rethrows.
rcCaught(err) ==
  /\ rcLastError' = IF fallbacks > 0 THEN recordError(rcLastError, err) ELSE rcLastError
  /\ IF fallbacks > 0 /\ rcIndex < fallbacks
       THEN /\ rcIndex' = rcIndex + 1
            /\ rcInvoked' = Append(rcInvoked, rcIndex + 1)
            /\ rcPc' = "fallback"
            /\ UNCHANGED <<rcOutcome, rcHandled>>
       ELSE LET thrown == IF fallbacks > 0 THEN chainThrows(rcLastError') ELSE err
            IN  /\ rcPc' = "thrown"
                /\ rcHandled' = rcHandled \o handleApiError(thrown, errorHandlers, onLine)
                /\ rcOutcome' = [kind |-> "thrown", error |-> thrown]
                /\ UNCHANGED <<rcIndex, rcInvoked>>

\* apiFn() rejected with failure f: retryWithBackoff schedules a delay, or
\* mainFn throws.
rcPrimaryRejects(f) ==
  /\ rcPc = "primary"
  /\ rcLog' = Append(rcLog, [op |-> 0, ok |-> FALSE,
                             error |-> Raised(Len(rcInvoked), f),
                             retryable |-> shouldRetry(f, onLine)])
  /\ IF mainGivesUp(useRetry, rcRetries, retryOptions.maxRetries, f, onLine)
       THEN rcCaught(thrownError(Len(rcInvoked), f))
       ELSE /\ rcPc' = "waiting"
            /\ UNCHANGED <<rcIndex, rcLastError, rcOutcome, rcInvoked, rcHandled>>
  /\ UNCHANGED <<useRetry, retryOptions, fallbacks, errorHandlers, circuitBreaker,
                 rcRetries>>
  /\ UNCHANGED facadeOthers

\* The retry delay elapsed: retries++ and apiFn is invoked again.
rcDelayElapsed ==
  /\ rcPc = "waiting"
  /\ rcRetries' = rcRetries + 1
  /\ rcInvoked' = Append(rcInvoked, 0)
  /\ rcPc' = "primary"
  /\ UNCHANGED <<useRetry, retryOptions, fallbacks, errorHandlers, circuitBreaker,
                 rcIndex, rcLastError, rcOutcome, rcLog, rcHandled>>
  /\ UNCHANGED facadeOthers

\* Fallback rcIndex rejected with failure f.
rcFallbackRejects(f) ==
  /\ rcPc = "fallback"
  /\ rcLog' = Append(rcLog, [op |-> rcIndex, ok |-> FALSE,
                             error |-> Raised(Len(rcInvoked), f),
                             retryable |-> shouldRetry(f, onLine)])
  /\ rcCaught(Raised(Len(rcInvoked), f))
  /\ UNCHANGED <<useRetry, retryOptions, fallbacks, errorHandlers, circuitBreaker,
                 rcRetries>>
  /\ UNCHANGED facadeOthers

FacadeNext ==
  \/ resilientCall
  \/ rcResolve
  \/ \E f \in RcFailures : rcPrimaryRejects(f)
  \/ rcDelayElapsed
  \/ \E f \in RcFailures : rcFallbackRejects(f)
  \/ onLineChanges

\* -------------------------------------------- monitorWebSocketConnection
\* The default of the reconnectDelay option.
DEFAULT_RECONNECT_DELAY == 1000

MonStep(ev) ==
  [ev |-> ev, monitoring |-> isMonitoring, onReconnect |-> FALSE, onMaxReconnects |-> FALSE]

\* The monitor as constructed, around a socket that has not closed.
MonitorInit ==
  /\ maxReconnects \in 0..MaxReconnectsTried
  /\ currentSocket = 1
  /\ reconnectAttempts = 0
  /\ reconnectTimeout = NoTimer
  /\ isMonitoring = FALSE
  /\ monSockets = <<[closed |-> FALSE, listening |-> FALSE]>>
  /\ monTimers = {}
  /\ monTimersSet = 0
  /\ monStarts = 0
  /\ monCreated = 0
  /\ monLast = MonStep("init")

\* start()
monStart ==
  /\ IF isMonitoring
       THEN UNCHANGED <<isMonitoring, reconnectAttempts, monSockets, monStarts, monCreated>>
       ELSE /\ isMonitoring' = TRUE
            /\ reconnectAttempts' = 0
            /\ monSockets' = [monSockets EXCEPT ![currentSocket].listening = TRUE]
            /\ monStarts' = monStarts + 1
            /\ monCreated' = 0
  /\ monLast' = MonStep("start")
  /\ UNCHANGED <<maxReconnects, currentSocket, reconnectTimeout, monTimers, monTimersSet>>
  /\ UNCHANGED monitorOthers

\* stop()
monStop ==
  /\ IF ~isMonitoring
       THEN UNCHANGED <<isMonitoring, reconnectTimeout, monTimers, monSockets>>
       ELSE /\ isMonitoring' = FALSE
            /\ monTimers' = IF reconnectTimeout # NoTimer
                              THEN clearTimeout(monTimers, reconnectTimeout)
                              ELSE monTimers
            /\ reconnectTimeout' = NoTimer
            /\ monSockets' = [monSockets EXCEPT ![currentSocket].listening = FALSE]
  /\ monLast' = MonStep("stop")
  /\ UNCHANGED <<maxReconnects, currentSocket, reconnectAttempts, monTimersSet, monStarts,
                 monCreated>>
  /\ UNCHANGED monitorOthers

\* Variant of monMayReconnect with `reconnectAttempts <= maxReconnects`.
monMayReconnectInclusive(wasClean, attempts, limit) == ~wasClean /\ attempts <= limit

\* `!event.wasClean && reconnectAttempts < maxReconnects`
monMayReconnect(wasClean, attempts, limit) == ~wasClean /\ attempts < limit

\* reconnectDelay * Math.pow(1.5, reconnectAttempts - 1) for the incremented
\* counter n, as the whole number of milliseconds setTimeout makes of it.
monDelay(n) == (DEFAULT_RECONNECT_DELAY * 3^(n - 1)) \div 2^(n - 1)

\* Socket s closes and its 'close' event is dispatched: handleClose runs if it
\* is a listener of s.
monSocketClosed(s, wasClean) ==
  /\ ~monSockets[s].closed
  /\ monSockets' = [monSockets EXCEPT ![s].closed = TRUE]
  /\ IF ~monSockets[s].listening \/ ~isMonitoring
       THEN /\ monLast' = MonStep("close")
            /\ UNCHANGED <<reconnectAttempts, reconnectTimeout, monTimers, monTimersSet>>
       ELSE IF monMayReconnect(wasClean, reconnectAttempts, maxReconnects)
         THEN /\ reconnectAttempts' = reconnectAttempts + 1
              /\ monTimersSet' = monTimersSet + 1
              /\ reconnectTimeout' = monTimersSet + 1
              /\ monTimers' = monTimers \cup
                   {[id |-> monTimersSet + 1, delay |-> monDelay(reconnectAttempts + 1)]}
              /\ monLast' = [MonStep("close") EXCEPT !.onReconnect = TRUE]
         ELSE /\ monLast' = [MonStep("close") EXCEPT
                               !.onMaxReconnects = (reconnectAttempts >= maxReconnects)]
              /\ UNCHANGED <<reconnectAttempts, reconnectTimeout, monTimers, monTimersSet>>
  /\ UNCHANGED <<maxReconnects, currentSocket, isMonitoring, monStarts, monCreated>>
  /\ UNCHANGED monitorOthers

\* The callback of a reconnect timer runs: createSocket() is called; unless it
\* throws, its socket becomes currentSocket and gets handleClose as listener.
monTimerFired(t, throws) ==
  /\ t \in monTimers
  /\ monTimers' = monTimers \ {t}
  /\ monCreated' = monCreated + 1
  /\ IF throws
       THEN UNCHANGED <<currentSocket, monSockets>>
       ELSE /\ monSockets' = Append(monSockets, [closed |-> FALSE, listening |-> TRUE])
            /\ currentSocket' = Len(monSockets) + 1
  /\ monLast' = MonStep("timer")
  /\ UNCHANGED <<maxReconnects, reconnectAttempts, reconnectTimeout, isMonitoring,
                 monTimersSet, monStarts>>
  /\ UNCHANGED monitorOthers

MonitorNext ==
  \/ (isMonitoring \/ monStarts < MaxStarts) /\ monStart
  \/ monStop
  \/ \E s \in DOMAIN monSockets, wasClean \in BOOLEAN : monSocketClosed(s, wasClean)
  \/ \E t \in monTimers, throws \in BOOLEAN : monTimerFired(t, throws)

\* ------------------------------------------------------- specifications
\* The component a specification does not exercise rests in one initial state.
BreakerAtRest ==
  BreakerInit /\ failureThreshold = MaxThreshold

RetryAtRest ==
  RetryInit /\ maxRetries = MaxRetries /\ maxDelay \in BaseDelays \cup MaxDelays
            /\ maxDelay >= 100 /\ onLine

FallbackAtRest == FallbackInit /\ fns.present /\ fns.len = MaxChain

ClassifyAtRest == ClassifyInit

HookAtRest == HookInit

ConvAtRest == ConvInit

FacadeAtRest ==
  /\ FacadeInit
  /\ useRetry /\ retryOptions.maxRetries = 0 /\ fallbacks = 0
  /\ errorHandlers = {} /\ ~circuitBreaker

MonitorAtRest == MonitorInit /\ maxReconnects = MaxReconnectsTried

RetrySpecInit == RetryInit /\ BreakerAtRest /\ FallbackAtRest /\ ClassifyAtRest /\ HookAtRest
  /\ ConvAtRest /\ FacadeAtRest
    /\ MonitorAtRest

RetrySpec == RetrySpecInit /\ [][RetryNext]_vars

\* The promise of a pending fn() settles and a due delay elapses: the event
\* loop resumes the call at its await.
RetryResumes ==
  \/ retryReturn
  \/ \E f \in RetryFailures, j \in Jitter : retryCatch(f, j)
  \/ retryResume

RetryFairSpec == RetrySpec /\ WF_vars(RetryResumes)

BreakerSpecInit == BreakerInit /\ RetryAtRest /\ FallbackAtRest /\ ClassifyAtRest /\ HookAtRest
  /\ ConvAtRest /\ FacadeAtRest
    /\ MonitorAtRest

BreakerNext ==
  \/ \E c \in Calls : executeOpen(c)
  \/ \E c \in Calls : executeInvoke(c)
  \/ \E c \in Calls : executeSuccess(c)
  \/ \E c \in Calls, e \in OpErrors : executeFailure(c, e)
  \/ \E t \in timers : resetTimerFired(t)
  \/ reset

BreakerSpec == BreakerSpecInit /\ [][BreakerNext]_vars

\* A pending timeout callback eventually runs (the event loop serves due timers).
TimerFires == \E t \in timers : resetTimerFired(t)

BreakerFairSpec == BreakerSpec /\ WF_vars(TimerFires)

FallbackSpecInit == FallbackInit /\ BreakerAtRest /\ RetryAtRest /\ ClassifyAtRest /\ HookAtRest
  /\ ConvAtRest /\ FacadeAtRest
    /\ MonitorAtRest

ClassifySpecInit == ClassifyInit /\ BreakerAtRest /\ RetryAtRest /\ FallbackAtRest /\ HookAtRest
  /\ ConvAtRest /\ FacadeAtRest
    /\ MonitorAtRest

ClassifySpec == ClassifySpecInit /\ [][ClassifyNext]_vars

HookSpecInit ==
  HookInit /\ BreakerAtRest /\ RetryAtRest /\ FallbackAtRest /\ ClassifyAtRest /\ ConvAtRest /\ FacadeAtRest
    /\ MonitorAtRest

HookSpec == HookSpecInit /\ [][HookNext]_vars

HookOutageSpec == HookSpecInit /\ [][HookOutageNext]_vars

ConvSpecInit ==
  ConvInit /\ BreakerAtRest /\ RetryAtRest /\ FallbackAtRest /\ ClassifyAtRest /\ HookAtRest /\ FacadeAtRest
    /\ MonitorAtRest

ConvSpec == ConvSpecInit /\ [][ConvNext]_vars

\* A session of either kind: the hook or the conversation is exercised, the
\* other one rests.
SessionSpecInit ==
  HookInit /\ ConvInit /\ BreakerAtRest /\ RetryAtRest /\ FallbackAtRest /\ ClassifyAtRest /\ FacadeAtRest
    /\ MonitorAtRest

SessionNext ==
  \/ convLast.ev = "init" /\ HookNext
  \/ hookLast.ev = "init" /\ ConvNext

SessionSpec == SessionSpecInit /\ [][SessionNext]_vars

FallbackSpec == FallbackSpecInit /\ [][FallbackNext]_vars

\* A breaker that has opened: the state after failureThreshold consecutive
\* failures of execute() calls, with its reset timer pending.
BreakerOpenAtRest ==
  /\ failureThreshold = MaxThreshold
  /\ resetTimeout = ResetTimeoutTried
  /\ state = OPEN
  /\ failures = MaxThreshold
  /\ resetTimer = 1
  /\ lastError = "e1"
  /\ timers = {[id |-> 1, delay |-> ResetTimeoutTried]}
  /\ callPc = [c \in Calls |-> "idle"]
  /\ admittedIn = [c \in Calls |-> "none"]
  /\ probes = 0
  /\ consecutive = MaxThreshold
  /\ last = [ev |-> "failure", call |-> 1, thrown |-> "e1", from |-> CLOSED,
             admitted |-> CLOSED]

\* A resilient call, with a breaker that is closed or has opened.
FacadeSpecInit ==
  FacadeInit /\ (BreakerAtRest \/ BreakerOpenAtRest) /\ RetryAtRest /\ FallbackAtRest
    /\ ClassifyAtRest /\ HookAtRest /\ ConvAtRest /\ MonitorAtRest

FacadeSpec == FacadeSpecInit /\ [][FacadeNext]_vars

MonitorSpecInit ==
  MonitorInit /\ BreakerAtRest /\ RetryAtRest /\ FallbackAtRest /\ ClassifyAtRest
    /\ HookAtRest /\ ConvAtRest /\ FacadeAtRest

MonitorSpec == MonitorSpecInit /\ [][MonitorNext]_vars

\* ------------------------------------------------ circuit breaker claims

\* C1: from Closed, a failed execute() leaves the state Closed while fewer than
\* failureThreshold consecutive execute() calls have failed, and the one that
\* completes a run of failureThreshold failures opens the circuit with a reset
\* timer pending.
C1_OpensOnlyAfterConsecutiveFailures ==
  [][(last'.ev = "failure" /\ state = CLOSED) =>
       IF consecutive' < failureThreshold
         THEN state' = CLOSED
         ELSE state' = OPEN /\ TimerPending']_vars

\* C2: a success recorded while Closed leaves the failure count at 0.
C2_SuccessInClosedZeroesFailures ==
  (last.ev = "success" /\ last.from = CLOSED) => failures = 0

\* C3: while Open, a call to execute() is rejected with the circuit-open error,
\* invokes no operation, and changes neither the state, the failure count, the
\* last error nor the reset timer.
C3_OpenRejectsWithoutEffect ==
  [][(state = OPEN /\ last'.ev \in {"rejected", "invoked"}) =>
       /\ last'.ev = "rejected"
       /\ last'.thrown = CircuitOpenError
       /\ UNCHANGED <<state, failures, lastError, resetTimer, timers, callPc>>]_vars

C3_Witness ==
  /\ last.ev = "rejected"
  /\ last.from = OPEN
  /\ state = OPEN
  /\ failures > 0
  /\ lastError \in OpErrors
  /\ TimerPending

\* C4: during one visit to HalfOpen at most one operation is invoked.
C4_SingleProbe == state = HALF_OPEN => probes <= 1

\* C5: an Open breaker reaches HalfOpen unless reset() is called, and the timer
\* callback changes the state only from Open (to HalfOpen).
C5_OpenLeadsToHalfOpen ==
  /\ (state = OPEN) ~> (state = HALF_OPEN \/ last.ev = "reset")
  /\ [][(last'.ev = "timer" /\ state' # state) =>
          (state = OPEN /\ state' = HALF_OPEN)]_vars

C5_Witness == last.ev = "timer" /\ last.from = OPEN /\ state = HALF_OPEN

\* C6: a success recorded while HalfOpen leaves the state Closed and the failure
\* count 0.
C6_HalfOpenSuccessCloses ==
  (last.ev = "success" /\ last.from = HALF_OPEN) => (state = CLOSED /\ failures = 0)

C6_Witness ==
  /\ last.ev = "success"
  /\ last.from = HALF_OPEN
  /\ last.admitted = HALF_OPEN
  /\ state = CLOSED

\* C7: a failure recorded while HalfOpen leaves the state Open with exactly one
\* reset timer pending, scheduled for resetTimeout, and raises the operation's
\* own failure.
C7_HalfOpenFailureReopens ==
  (last.ev = "failure" /\ last.from = HALF_OPEN) =>
    /\ state = OPEN
    /\ timers = {[id |-> resetTimer, delay |-> resetTimeout]}
    /\ last.thrown \in OpErrors
    /\ last.thrown = lastError

C7_Witness ==
  /\ last.ev = "failure"
  /\ last.from = HALF_OPEN
  /\ last.admitted = HALF_OPEN
  /\ state = OPEN
  /\ TimerPending

\* C8: the state is Open only while a reset timer is pending.
C8_OpenOnlyWithPendingTimer == state = OPEN => TimerPending

C8_Witness ==
  /\ state = OPEN
  /\ TimerPending
  /\ \E c \in Calls : callPc[c] = "awaiting"

\* C9: reset() leaves the state Closed, the failure count 0 and no timer pending.
C9_ResetForcesClosed ==
  last.ev = "reset" => (state = CLOSED /\ failures = 0 /\ timers = {})

C9_Witness ==
  /\ last.ev = "reset"
  /\ last.from = OPEN
  /\ state = CLOSED
  /\ timers = {}

\* ---------------------------------------------------------- retry claims

\* C10: with maxRetries = R, a call whose operation failed every time with a
\* failure shouldRetry accepts ends only after R + 1 invocations, and raises the
\* failure of the operation.
C10_RetryBound ==
  (retryPc \in {"returned", "thrown"} /\ allRetryable /\ retryOutcome.kind # "returned") =>
    /\ invocations = maxRetries + 1
    /\ retryOutcome.kind = "thrown"
    /\ retryOutcome.error = lastFailure
    /\ retryOutcome.error.failure \in RetryFailures

C10_Witness ==
  /\ retryPc = "thrown"
  /\ allRetryable
  /\ maxRetries = MaxRetries
  /\ invocations = MaxRetries + 1
  /\ delaysScheduled = MaxRetries

\* Kinds the default predicate retries.
RetryableKinds == {NETWORK, SERVER, TIMEOUT, RATE_LIMIT}

\* C11: with attempts left, a caught failure leads to a scheduled re-attempt if and
\* only if its kind is Network, Server, Timeout or RateLimit; when the first
\* failure has another kind the call ends after that one invocation with no delay
\* scheduled.
C11_RetriedIffRetryableKind ==
  [][(retryPc = "calling" /\ retryPc' \in {"waiting", "thrown"}) =>
       LET kind == classifyError(lastFailure'.failure, onLine) IN
         /\ retries < maxRetries =>
              (retryPc' = "waiting" <=> kind \in RetryableKinds)
         /\ (invocations = 1 /\ kind \notin RetryableKinds) =>
              (retryPc' = "thrown" /\ invocations' = 1 /\ delaysScheduled' = 0)]_vars

C11_Witness ==
  /\ retryPc = "thrown"
  /\ maxRetries > 0
  /\ invocations = 1
  /\ delaysScheduled = 0
  /\ classifyError(lastFailure.failure, onLine) = VALIDATION

\* C12: the failure a call ends with is the object the last invocation of the
\* operation raised, as it was raised.
C12_ThrowsLastFailureAsIs ==
  retryPc = "thrown" =>
    /\ retryOutcome.kind = "thrown"
    /\ retryOutcome.error = lastFailure
    /\ retryOutcome.error.attempt = invocations
    /\ retryOutcome.error.failure \in RetryFailures

C12_Witness ==
  /\ retryPc = "thrown"
  /\ invocations >= 2
  /\ retryOutcome.error.attempt = invocations
  /\ invocations < maxRetries + 1

\* C13: once the caller has cancelled a waiting call, the operation is not invoked
\* again and the call does not move on.
C13_CancelStopsRetry ==
  [][cancelled => (invocations' = invocations /\ retryPc' = retryPc)]_vars

\* C14: the delay scheduled at attempt index n is min(maxDelay, baseDelay * 2^n * j)
\* for a jitter j in [0.8, 1.2]: at most maxDelay and at least
\* min(maxDelay, 0.8 * baseDelay * 2^n).  Delays are in hundredths.
C14_BackoffEnvelope ==
  retryPc = "waiting" =>
    /\ \E j \in 80..120 : retryDelay = Min(maxDelay * 100, baseDelay * (2 ^ retries) * j)
    /\ retryDelay <= maxDelay * 100
    /\ retryDelay >= Min(maxDelay * 100, 80 * baseDelay * (2 ^ retries))

C14_Witness ==
  /\ retryPc = "waiting"
  /\ retries >= 1
  /\ retryDelay = maxDelay * 100
  /\ baseDelay * (2 ^ retries) * 80 < maxDelay * 100

\* ------------------------------------------------- fallback chain claims

\* C15: the functions invoked are 1, 2, ... in list order, each once; only the
\* last invocation can have succeeded, and then the call has returned that
\* function's result and invokes nothing more.
C15_PrefixInOrderFirstSuccessWins ==
  /\ Len(fbInvoked) <= fns.len
  /\ \A i \in 1..Len(fbInvoked) : fbInvoked[i] = i
  /\ \A i \in 1..Len(fbLog) :
       /\ fbLog[i].fn = i
       /\ fbLog[i].ok =>
            /\ i = Len(fbInvoked)
            /\ fbPc = "returned"
            /\ fbOutcome = [kind |-> "returned", value |-> i, error |-> NoRaised]
  /\ fbPc = "returned" => (Len(fbLog) = Len(fbInvoked) /\ fbLog[Len(fbLog)].ok)

C15_Witness ==
  /\ fbPc = "returned"
  /\ fns.len = 3
  /\ fbInvoked = <<1, 2>>
  /\ ~fbLog[1].ok
  /\ fbOutcome.value = 2

C17_EmptyChainRejected ==
  ((~fns.present \/ fns.len = 0) /\ fbPc # "idle") =>
    /\ fbPc = "thrown"
    /\ fbOutcome = [kind |-> "thrown", value |-> 0, error |-> EmptyChainError]
    /\ fbInvoked = <<>>
    /\ fbLog = <<>>

C17_Witness == fns.present /\ fns.len = 0 /\ fbPc = "thrown"

\* ---------------------------------------------------- classifier claims

\* The status of a failure as the caller gave it: its status field, or its
\* statusCode field when it has no status.
C18_Status(e) == IF e.status # 0 THEN e.status ELSE e.statusCode

C19_RuleOrder == <<NETWORK, AUTHENTICATION, RATE_LIMIT, SERVER, VALIDATION, PERMISSION,
                   RESOURCE_NOT_FOUND, TIMEOUT>>

C19_Matches(kind, e, online) ==
  LET message == e.message
      status == C18_Status(e)
  IN CASE kind = NETWORK -> matchesNetwork(message, status, online)
       [] kind = AUTHENTICATION -> matchesAuthentication(message, status, online)
       [] kind = RATE_LIMIT -> matchesRateLimit(message, status, online)
       [] kind = SERVER -> matchesServer(message, status, online)
       [] kind = VALIDATION -> matchesValidation(message, status, online)
       [] kind = PERMISSION -> matchesPermission(message, status, online)
       [] kind = RESOURCE_NOT_FOUND -> matchesNotFound(message, status, online)
       [] kind = TIMEOUT -> matchesTimeout(message, status, online)

\* The kind of the first rule of C19_RuleOrder that matches, Unknown if none does.
C19_FirstMatch(e, online) ==
  LET hits == {n \in 1..Len(C19_RuleOrder) : C19_Matches(C19_RuleOrder[n], e, online)}
  IN IF hits = {} THEN UNKNOWN
     ELSE C19_RuleOrder[CHOOSE n \in hits : \A m \in hits : n <= m]

C20_DisconnectWins ==
  [][(userDisconnected /\ hookLast'.ev # "connect") =>
       (hookLast'.ev # "timer" /\ socketsCreated' = socketsCreated)]_vars

\* The step is the close event of a socket, unclean, with attempts left.
C21_UncleanCloseWithAttemptsLeft ==
  /\ hookLast'.ev = "close"
  /\ ~hookLast'.wasClean
  /\ reconnectAttemptsRef < MAX_RECONNECT_ATTEMPTS

\* An unclean close with attempts left adds one to reconnectAttempts and sets
\* exactly one timer, opening no socket yet; nothing else sets a timer.
C21_OneTimerPerUncleanClose ==
  /\ C21_UncleanCloseWithAttemptsLeft =>
       /\ reconnectAttemptsRef' = reconnectAttemptsRef + 1
       /\ hookTimers \subseteq hookTimers'
       /\ Cardinality(hookTimers') = Cardinality(hookTimers) + 1
       /\ socketsCreated' = socketsCreated
  /\ ~C21_UncleanCloseWithAttemptsLeft => hookTimers' \subseteq hookTimers

\* C21 as stated: an unclean close with attempts left adds one to
\* reconnectAttempts and sets one timer, and the timer, when it fires, opens
\* exactly one new socket.
C21_ExactlyOneReconnect ==
  [][/\ C21_OneTimerPerUncleanClose
     /\ hookLast'.ev = "timer" =>
          /\ Cardinality(hookTimers') = Cardinality(hookTimers) - 1
          /\ socketsCreated' = socketsCreated + 1]_vars

\* C21, amended: the timer, when it fires, opens exactly one new socket if the
\* session holds no socket that is connecting or open, and none if it does.
C21_ExactlyOneReconnectIfFree ==
  [][/\ C21_OneTimerPerUncleanClose
     /\ hookLast'.ev = "timer" =>
          /\ Cardinality(hookTimers') = Cardinality(hookTimers) - 1
          /\ socketsCreated' = socketsCreated + (IF alreadyConnected THEN 0 ELSE 1)]_vars

C21_Witness ==
  /\ hookLast.ev = "timer"
  /\ hookLast.notified = <<"connecting">>
  /\ reconnectAttemptsRef = 1
  /\ socketsCreated = 2
  /\ ~userDisconnected

\* The session has given up: the last error reported is the one of the limit
\* and the status is 'error'.
C22_GaveUp ==
  hookStatus = "error" /\ hookError = "Maximum reconnection attempts reached"

\* C22: a close event with reconnectAttempts >= MAX_RECONNECT_ATTEMPTS sets
\* the status 'error', reports the limit error and sets no timer; the status
\* then stays 'error' until the caller calls connect() (or disconnect(), which
\* leads to 'disconnected' from any status).
C22_GivesUpAtLimit ==
  [][/\ (hookLast'.ev = "close" /\ reconnectAttemptsRef >= MAX_RECONNECT_ATTEMPTS) =>
          /\ C22_GaveUp'
          /\ hookTimers' = hookTimers
          /\ reconnectTimeoutRef' = reconnectTimeoutRef
     /\ (C22_GaveUp /\ hookLast'.ev \notin {"connect", "disconnect"}) =>
          hookStatus' = "error"]_vars

\* C23: right after disconnect() the status is 'disconnected', no reconnect
\* timer is pending, no socket is held, the socket released is closing or
\* closed, and reconnectAttempts is 0.
C23_DisconnectLeavesCleanSession ==
  hookLast.ev = "disconnect" =>
    /\ hookStatus = "disconnected"
    /\ hookTimers = {}
    /\ reconnectTimeoutRef = NoTimer
    /\ socketRef = NoSocket
    /\ hookLast.socket # NoSocket =>
         sockets[hookLast.socket].readyState \in {"CLOSING", "CLOSED"}
    /\ reconnectAttemptsRef = 0

\* C24: the status is 'disconnected' after every disconnect(), the first and
\* the second of two in a row, and the second changes nothing in the session.
C24_DisconnectIdempotent ==
  /\ [](hookLast.ev = "disconnect" => hookStatus = "disconnected")
  /\ [][(hookLast.ev = "disconnect" /\ hookLast'.ev = "disconnect") =>
          UNCHANGED <<hookStatus, hookError, socketRef, reconnectTimeoutRef,
                      reconnectAttemptsRef, sockets, hookTimers>>]_vars

\* The sockets of a session that are connecting or open.
C25_InFlight(ss) == {s \in DOMAIN ss : ss[s].readyState \in {"CONNECTING", "OPEN"}}

\* C25: a conversation has at most one socket that is connecting or open.
C25_OneChannelInFlight == Cardinality(C25_InFlight(convSockets)) <= 1

\* C26: the statuses a step notifies are the statuses the session goes through
\* in that step: each notification is a change of status (none is notified
\* twice) and the last one is the status after the step (none is skipped).
C26_EachTransitionNotifiedOnce ==
  [][LET path == <<hookStatus>> \o hookLast'.notified IN
       /\ \A i \in 1..(Len(path) - 1) : path[i] # path[i + 1]
       /\ path[Len(path)] = hookStatus']_vars

\* C27: a message event hands the message to onMessage, once, in the step of
\* its arrival, changes no status and notifies none.
C27_MessagesIndependentOfStatus ==
  [][hookLast'.ev = "message" =>
       /\ hookLast'.delivered
       /\ hookLast'.notified = <<>>
       /\ hookStatus' = hookStatus]_vars

\* C28: connect() called while the status is 'disconnected' creates a socket
\* and sets 'connecting'; the open event sets 'connected' and reconnectAttempts
\* to 0; the status becomes 'connected' only from 'connecting'.
C28_ConnectThenOpen ==
  [][/\ (hookLast'.ev = "connect" /\ hookStatus = "disconnected") =>
          /\ socketsCreated' = socketsCreated + 1
          /\ sockets'[socketRef'].readyState = "CONNECTING"
          /\ hookStatus' = "connecting"
     /\ hookLast'.ev = "open" =>
          /\ hookStatus' = "connected"
          /\ reconnectAttemptsRef' = 0
     /\ (hookStatus' = "connected" /\ hookStatus # "connected") =>
          hookStatus = "connecting"]_vars

\* C29: the timer set by an unclean close that finds reconnectAttempts = k has
\* the delay min(maxDelay, baseDelay * 2^k * jitter) with jitter in [0.8, 1.2],
\* for baseDelay = RECONNECT_DELAY and the retry executor's default maxDelay.
C29_ReconnectDelayIsBackoff ==
  [][\A t \in hookTimers' \ hookTimers :
       LET k == reconnectAttemptsRef IN
         /\ 100 * t.delay >= Min(100 * DEFAULT_MAX_DELAY, 80 * RECONNECT_DELAY * 2^k)
         /\ 100 * t.delay <= Min(100 * DEFAULT_MAX_DELAY, 120 * RECONNECT_DELAY * 2^k)]_vars

\* C30: a send returns true only if the socket the session holds is open and
\* the message was handed to it; with no socket, or one that is not open, it
\* returns false and hands nothing over. Holds for sendMessage of the hook and
\* for sendTextMessage of the conversation.
C30_SendTrueOnlyIfHanded ==
  /\ hookLast.ev = "send" =>
       /\ hookLast.returned =>
            /\ socketRef # NoSocket
            /\ sockets[socketRef].readyState = "OPEN"
            /\ hookLast.handed
       /\ (socketRef = NoSocket \/ sockets[socketRef].readyState # "OPEN") =>
            ~hookLast.returned /\ ~hookLast.handed
  /\ convLast.ev = "send" =>
       /\ convLast.returned =>
            /\ convSocket # NoSocket
            /\ convSockets[convSocket].readyState = "OPEN"
            /\ convLast.handed
       /\ (convSocket = NoSocket \/ convSockets[convSocket].readyState # "OPEN") =>
            ~convLast.returned /\ ~convLast.handed

\* A send on a socket that has closed has returned false.
C30_Witness ==
  /\ hookLast.ev = "send"
  /\ socketRef # NoSocket
  /\ sockets[socketRef].readyState = "CLOSED"
  /\ ~hookLast.returned
  /\ ~hookLast.handed

\* C34: the breaker leaves HalfOpen through the completion of an execute()
\* call only if that call was admitted while the breaker was HalfOpen: an
\* earlier call's success does not close the circuit and its failure does not
\* reopen it.
C34_OnlyProbeLeavesHalfOpen ==
  [][(last'.ev \in {"success", "failure"} /\ state = HALF_OPEN /\ state' # HALF_OPEN) =>
       last'.admitted = HALF_OPEN]_vars

\* C36: a retryWithBackoff call invokes the operation at most maxRetries + 1
\* times and schedules at most maxRetries delays, whatever the operation's
\* failures are; it does not invoke the operation after a success; and once
\* started it ends, given that each invocation settles and each delay elapses.
C36_RetryTerminatesWithinBounds ==
  /\ [](invocations <= maxRetries + 1 /\ delaysScheduled <= maxRetries)
  /\ [][retryPc = "returned" => invocations' = invocations]_vars
  /\ (retryPc = "calling" ~> retryPc \in {"returned", "thrown"})

\* A call that used every retry, with failures of kinds that changed with the
\* connectivity, and then succeeded.
C36_Witness ==
  /\ retryPc = "returned"
  /\ maxRetries = MaxRetries
  /\ invocations = MaxRetries + 1
  /\ delaysScheduled = MaxRetries

\* C37: 0 <= failures <= failureThreshold, and failures = failureThreshold only
\* while the breaker is Open or HalfOpen.
C37_FailureCountWithinThreshold ==
  /\ failures >= 0
  /\ failures <= failureThreshold
  /\ failures = failureThreshold => state \in {OPEN, HALF_OPEN}

\* The count is at the threshold of 2 or more while the breaker is HalfOpen
\* and two calls overlap.
C37_Witness ==
  /\ failureThreshold >= 2
  /\ failures = failureThreshold
  /\ state = HALF_OPEN
  /\ \A c \in Calls : callPc[c] = "awaiting"

\* C35: between disconnect() and the caller's next connect(), no step moves
\* the status away from 'disconnected': not an event of the released socket,
\* not a timer, not a sendMessage.
C35_StaysDisconnected ==
  [][(userDisconnected /\ hookStatus = "disconnected" /\ hookLast'.ev # "connect") =>
       hookStatus' = "disconnected"]_vars

\* ------------------------------------------------------- facade claims

\* The number of invocations of apiFn so far.
C31_Primaries == Cardinality({i \in 1..Len(rcInvoked) : rcInvoked[i] = 0})

\* C31: the operations invoked are apiFn, once without useRetry and at most
\* maxRetries + 1 times with it, then the fallbacks 1, 2, ... in order, each at
\* most once and only if fallbacks were given; a fallback is invoked only after
\* every earlier invocation failed and apiFn used all its retries or failed
\* with a failure that is not retried.
C31_PrimaryThenFallbacksInOrder ==
  LET P == C31_Primaries
      M == Len(rcInvoked) - P
  IN  /\ \A i \in 1..Len(rcInvoked) :
           rcInvoked[i] = IF i <= P THEN 0 ELSE i - P
      /\ M <= fallbacks
      /\ P <= IF useRetry THEN retryOptions.maxRetries + 1 ELSE 1
      /\ \A i \in 1..Len(rcLog) : rcLog[i].ok => i = Len(rcInvoked)
      /\ M >= 1 =>
           /\ P >= 1
           /\ ~rcLog[P].ok
           /\ useRetry => (P = retryOptions.maxRetries + 1 \/ ~rcLog[P].retryable)

\* apiFn was retried twice, then both fallbacks ran in order.
C31_Witness ==
  /\ useRetry
  /\ retryOptions.maxRetries = 2
  /\ fallbacks = 2
  /\ rcInvoked = <<0, 0, 0, 1, 2>>

C33_BreakerGatesPrimary ==
  [][circuitBreaker =>
       /\ state = OPEN =>
            ~(Len(rcInvoked') > Len(rcInvoked) /\ rcInvoked'[Len(rcInvoked')] = 0)
       /\ (/\ state = CLOSED
           /\ Len(rcLog') > Len(rcLog)
           /\ rcLog'[Len(rcLog')].op = 0
           /\ ~rcLog'[Len(rcLog')].ok) => failures' = failures + 1]_vars

\* ------------------------------------------------------ invariant claims

\* C38: 0 <= reconnectAttempts <= MAX_RECONNECT_ATTEMPTS, and at most one
\* reconnect timer is pending.
C38_AttemptsBoundedOneTimer ==
  /\ reconnectAttemptsRef >= 0
  /\ reconnectAttemptsRef <= MAX_RECONNECT_ATTEMPTS
  /\ Cardinality(hookTimers) <= 1

\* C39: createSocket is called at most maxReconnects times in a monitoring
\* period; only start() lowers the attempt counter; and a close event that
\* arrives while the monitor is not monitoring sets no timer, calls createSocket
\* not at all and calls neither onReconnect nor onMaxReconnects.
C39_MonitorReconnectsBounded ==
  /\ [](monCreated <= maxReconnects)
  /\ [][/\ reconnectAttempts' < reconnectAttempts => monLast'.ev = "start"
        /\ (monLast'.ev = "close" /\ ~isMonitoring) =>
             /\ monTimers' = monTimers
             /\ monTimersSet' = monTimersSet
             /\ monCreated' = monCreated
             /\ reconnectAttempts' = reconnectAttempts
             /\ ~monLast'.onReconnect
             /\ ~monLast'.onMaxReconnects]_vars

\* After a period that used every reconnect, and stop(), the last socket
\* closes.
C39_Witness ==
  /\ maxReconnects = MaxReconnectsTried
  /\ monCreated = maxReconnects
  /\ monLast.ev = "close"
  /\ ~monLast.monitoring
  /\ monStarts >= 1

====
